---- MODULE Spec2Model ----
(***************************************************************************)
(* Model of the looper repository: main.py (chunked loop synthesis, video  *)
(* creation and the script's top level) and converter.py (linear loop      *)
(* synthesis with a final trim).                                           *)
(*                                                                         *)
(* An audio buffer is a run-length encoded sequence of frames, one frame   *)
(* per millisecond: a run <<lo, hi>> with lo >= 1 is the source's frames   *)
(* lo..hi unchanged, a run <<0, n>> is n frames produced by a crossfade    *)
(* mix.  The duration of a buffer is computed from its runs.               *)
(* AudioSegment.append(seg, crossfade=c) is pydub's: plain concatenation   *)
(* for c = 0, ValueError when c exceeds the length of either segment,      *)
(* otherwise an overlap of c ms.  Outcomes of the file system and of the   *)
(* encoders (export, os.remove, ffmpeg) are nondeterministic choices.      *)
(*                                                                         *)
(* Three specifications:                                                   *)
(*   Spec        a run of main.py: loop_song called by the script with its *)
(*               defaults or called directly with arguments;               *)
(*   SpecConv    a call of converter.loop_song;                            *)
(*   SpecStitch  lines 62-107 of main.loop_song applied to a list of n     *)
(*               built chunks (selection, stitching, cleanup, export).     *)
(***************************************************************************)
EXTENDS Integers, Sequences, FiniteSets, TLC

VARIABLES
    pc,                 \* position in the program
    caller,             \* "script" (main.py run as a script) or "call"
    input_file,         \* "missing", "empty", "corrupt" or "audio"
    file_ms,            \* duration of the audio held by the input file
    target_duration,    \* argument, seconds
    crossfade_duration, \* argument, seconds
    locals,             \* names of the local variables bound so far
    audio,              \* decoded source buffer
    current_audio,      \* main.py accumulator of the chunk being built
    chunk_number,
    copies,             \* position of `for _ in range(9)`
    chunks,             \* list of chunk files written and registered
    best_chunks,
    final_audio,
    chunk,              \* chunk buffer read back while stitching
    idx,                \* position of `for chunk_file in best_chunks[1:]`
    num_loops,          \* converter.py
    i,                  \* converter.py loop variable
    temp_files,         \* temp_chunk_N files on disk: N -> content
    output,             \* <<>> or <<buffer exported to output_file>>
    appends,            \* number of AudioSegment.append calls made
    result,             \* "running", a return value or the exception raised
    video_result,       \* "none", "True" or "False"
    report_printed      \* the final success line was printed

vars == <<pc, caller, input_file, file_ms, target_duration, crossfade_duration,
          locals, audio, current_audio, chunk_number, copies, chunks,
          best_chunks, final_audio, chunk, idx, num_loops, i, temp_files,
          output, appends, result, video_result, report_printed>>

----------------------------------------------------------------------------
\* Bounds of the model

SourceStep == 1500
MaxSourceSteps == 4
MaxCrossfade == 3
MaxTarget == 7
MaxChunks == 2
MaxBuilt == 3
MaxStitchTarget == 40

\* Program constants

MsPerSecond == 1000
TARGET_DURATION == 3600
DefaultCrossfade == 5
ChunkCopies == 10
ExtraCopies == 9

SourceDurations == {k * SourceStep : k \in 1..MaxSourceSteps}

Max(a, b) == IF a >= b THEN a ELSE b

----------------------------------------------------------------------------
\* Audio buffers (pydub AudioSegment values)

RunLen(r) == IF r[1] = 0 THEN r[2] ELSE r[2] - r[1] + 1

Source(d) == IF d = 0 THEN <<>> ELSE << <<1, d>> >>

RECURSIVE Duration(_)
Duration(buf) ==
    IF buf = <<>> THEN 0 ELSE RunLen(Head(buf)) + Duration(Tail(buf))

\* buf[:m]
RECURSIVE Take(_, _)
Take(buf, m) ==
    IF m <= 0 \/ buf = <<>> THEN <<>>
    ELSE LET r == Head(buf) IN
         IF RunLen(r) <= m THEN <<r>> \o Take(Tail(buf), m - RunLen(r))
         ELSE IF r[1] = 0 THEN << <<0, m>> >>
         ELSE << <<r[1], r[1] + m - 1>> >>

\* buf[m:]
RECURSIVE Drop(_, _)
Drop(buf, m) ==
    IF m <= 0 \/ buf = <<>> THEN buf
    ELSE LET r == Head(buf) IN
         IF RunLen(r) <= m THEN Drop(Tail(buf), m - RunLen(r))
         ELSE IF r[1] = 0 THEN << <<0, r[2] - m>> >> \o Tail(buf)
         ELSE << <<r[1] + m, r[2]>> >> \o Tail(buf)

\* concatenation of the frames of two buffers, runs kept maximal
Cat(a, b) ==
    IF a = <<>> THEN b
    ELSE IF b = <<>> THEN a
    ELSE LET x == a[Len(a)]
             y == b[1]
         IN IF x[1] = 0 /\ y[1] = 0
            THEN SubSeq(a, 1, Len(a) - 1) \o << <<0, x[2] + y[2]>> >> \o Tail(b)
            ELSE IF x[1] # 0 /\ y[1] = x[2] + 1
            THEN SubSeq(a, 1, Len(a) - 1) \o << <<x[1], y[2]>> >> \o Tail(b)
            ELSE a \o b

\* seg1.append(seg2, crossfade=c) raises ValueError
AppendRaises(seg1, seg2, c) ==
    c # 0 /\ (c > Duration(seg1) \/ c > Duration(seg2))

\* seg1.append(seg2, crossfade=c): seg1 without its last c ms, c ms of
\* cross-mix, seg2 without its first c ms
append(seg1, seg2, c) ==
    IF c = 0 THEN Cat(seg1, seg2)
    ELSE Cat(Cat(Take(seg1, Duration(seg1) - c), << <<0, c>> >>),
             Drop(seg2, c))

----------------------------------------------------------------------------
\* Derived quantities, named as the locals of the source

original_duration == Duration(audio)
crossfade_ms == crossfade_duration * MsPerSecond
target_ms == target_duration * MsPerSecond
chunk_size == original_duration * ChunkCopies
chunk_duration == chunk_size - crossfade_ms
effective_duration == original_duration - crossfade_ms

\* int(t / e) of Python for t >= 0 and e # 0: truncation toward zero
TruncDiv(t, e) == IF e > 0 THEN t \div e ELSE 0 - (t \div (0 - e))

\* line 63 without the extra loop
NumLoopsNoExtra(t, e) == Max(1, TruncDiv(t, e))

\* line 63 with one loop too many
NumLoopsTwoExtra(t, e) == Max(1, TruncDiv(t, e) + 2)

\* converter.py line 63
NumLoops(t, e) == Max(1, TruncDiv(t, e) + 1)

\* the loop of lines 69-73 of main.py: the longest prefix whose estimated
\* duration chunk_duration * n does not exceed the target
RECURSIVE SelectFrom(_, _, _)
SelectFrom(n, best_duration, best) ==
    IF n > Len(chunks) THEN best
    ELSE LET duration == chunk_duration * n IN
         IF duration <= target_ms /\ duration > best_duration
         THEN SelectFrom(n + 1, duration, SubSeq(chunks, 1, n))
         ELSE SelectFrom(n + 1, best_duration, best)

Restrict(f, S) == [x \in S |-> f[x]]

ChunkSet == {chunks[n] : n \in 1..Len(chunks)}

\* os.remove of every registered chunk, each failure swallowed: the files
\* of `kept` survive
RemoveChunks(kept) == Restrict(temp_files, (DOMAIN temp_files \ ChunkSet) \cup kept)

----------------------------------------------------------------------------
\* main.py, loop_song

\* lines 26-27: the existence check at the head of the try block
CheckInput ==
    /\ pc = "check"
    /\ pc' = IF input_file = "missing" THEN "except" ELSE "load"
    /\ UNCHANGED <<caller, input_file, file_ms, target_duration,
                   crossfade_duration, locals, audio, current_audio,
                   chunk_number, copies, chunks, best_chunks, final_audio,
                   chunk, idx, num_loops, i, temp_files, output, appends,
                   result, video_result, report_printed>>

\* lines 30-45: decode, then the assignments up to the head of the while loop
LoadAudio ==
    /\ pc = "load"
    /\ IF input_file = "audio"
       THEN /\ audio' = Source(file_ms)
            /\ current_audio' = Source(file_ms)
            /\ chunks' = <<>>
            /\ chunk_number' = 1
            /\ locals' = locals \cup {"audio", "chunks", "current_audio"}
            /\ pc' = "while"
       ELSE /\ pc' = "except"
            /\ UNCHANGED <<audio, current_audio, chunks, chunk_number, locals>>
    /\ UNCHANGED <<caller, input_file, file_ms, target_duration,
                   crossfade_duration, copies, best_chunks, final_audio,
                   chunk, idx, num_loops, i, temp_files, output, appends,
                   result, video_result, report_printed>>

\* line 47: the test of the while loop
WhileTest ==
    /\ pc = "while"
    /\ IF Duration(current_audio) < target_ms
       THEN /\ chunk_number <= MaxChunks
            /\ pc' = "build"
            /\ copies' = 0
       ELSE /\ pc' = "select"
            /\ UNCHANGED copies
    /\ UNCHANGED <<caller, input_file, file_ms, target_duration,
                   crossfade_duration, locals, audio, current_audio,
                   chunk_number, chunks, best_chunks, final_audio, chunk,
                   idx, num_loops, i, temp_files, output, appends, result,
                   video_result, report_printed>>

\* lines 52-53: one pass of `for _ in range(9)`
AppendCopy ==
    /\ pc = "build"
    /\ copies < ExtraCopies
    /\ appends' = appends + 1
    /\ IF AppendRaises(current_audio, audio, crossfade_ms)
       THEN /\ pc' = "except"
            /\ UNCHANGED <<current_audio, copies>>
       ELSE /\ current_audio' = append(current_audio, audio, crossfade_ms)
            /\ copies' = copies + 1
            /\ pc' = "build"
    /\ UNCHANGED <<caller, input_file, file_ms, target_duration,
                   crossfade_duration, locals, audio, chunk_number, chunks,
                   best_chunks, final_audio, chunk, idx, num_loops, i,
                   temp_files, output, result, video_result,
                   report_printed>>

\* lines 55-60: export of the chunk, registration, reset of the accumulator.
\* A failing export raises before chunks.append and may leave the file it
\* opened for writing.
ExportChunk ==
    /\ pc = "build"
    /\ copies = ExtraCopies
    /\ \E outcome \in {"ok", "failed", "failed_file_left"} :
          IF outcome = "ok"
          THEN /\ temp_files' = (chunk_number :> current_audio) @@ temp_files
               /\ chunks' = chunks \o <<chunk_number>>
               /\ chunk_number' = chunk_number + 1
               /\ current_audio' = audio
               /\ pc' = "while"
          ELSE /\ temp_files' = IF outcome = "failed_file_left"
                                THEN (chunk_number :> <<>>) @@ temp_files
                                ELSE temp_files
               /\ pc' = "except"
               /\ UNCHANGED <<chunks, chunk_number, current_audio>>
    /\ UNCHANGED <<caller, input_file, file_ms, target_duration,
                   crossfade_duration, locals, audio, copies, best_chunks,
                   final_audio, chunk, idx, num_loops, i, output, appends,
                   result, video_result, report_printed>>

\* lines 62-76: chunk selection
SelectChunks ==
    /\ pc = "select"
    /\ best_chunks' = SelectFrom(1, 0, <<>>)
    /\ locals' = locals \cup {"best_chunks"}
    /\ pc' = "first"
    /\ UNCHANGED <<caller, input_file, file_ms, target_duration,
                   crossfade_duration, audio, current_audio, chunk_number,
                   copies, chunks, final_audio, chunk, idx, num_loops, i,
                   temp_files, output, appends, result, video_result,
                   report_printed>>

\* line 77: best_chunks[0] raises IndexError on an empty selection;
\* from_mp3 fails on a file that is gone
StitchFirst ==
    /\ pc = "first"
    /\ IF best_chunks # <<>> /\ best_chunks[1] \in DOMAIN temp_files
       THEN /\ final_audio' = temp_files[best_chunks[1]]
            /\ locals' = locals \cup {"final_audio"}
            /\ idx' = 2
            /\ pc' = "stitch"
       ELSE /\ pc' = "except"
            /\ UNCHANGED <<final_audio, locals, idx>>
    /\ UNCHANGED <<caller, input_file, file_ms, target_duration,
                   crossfade_duration, audio, current_audio, chunk_number,
                   copies, chunks, best_chunks, chunk, num_loops, i,
                   temp_files, output, appends, result, video_result,
                   report_printed>>

\* lines 78-79: the next chunk is read back
StitchLoad ==
    /\ pc = "stitch"
    /\ idx <= Len(best_chunks)
    /\ IF best_chunks[idx] \in DOMAIN temp_files
       THEN /\ chunk' = temp_files[best_chunks[idx]]
            /\ locals' = locals \cup {"chunk"}
            /\ pc' = "stitch_append"
       ELSE /\ pc' = "except"
            /\ UNCHANGED <<chunk, locals>>
    /\ UNCHANGED <<caller, input_file, file_ms, target_duration,
                   crossfade_duration, audio, current_audio, chunk_number,
                   copies, chunks, best_chunks, final_audio, idx, num_loops,
                   i, temp_files, output, appends, result, video_result,
                   report_printed>>

\* lines 80-81: it is appended to final_audio and released
StitchAppend ==
    /\ pc = "stitch_append"
    /\ appends' = appends + 1
    /\ IF AppendRaises(final_audio, chunk, crossfade_ms)
       THEN /\ pc' = "except"
            /\ UNCHANGED <<final_audio, chunk, idx>>
       ELSE /\ final_audio' = append(final_audio, chunk, crossfade_ms)
            /\ chunk' = <<>>
            /\ idx' = idx + 1
            /\ pc' = "stitch"
    /\ UNCHANGED <<caller, input_file, file_ms, target_duration,
                   crossfade_duration, locals, audio, current_audio,
                   chunk_number, copies, chunks, best_chunks, num_loops, i,
                   temp_files, output, result, video_result, report_printed>>

\* lines 83-89: removal of the chunk files on the success path
Cleanup ==
    /\ pc = "stitch"
    /\ idx > Len(best_chunks)
    /\ \E kept \in SUBSET (ChunkSet \cap DOMAIN temp_files) :
          temp_files' = RemoveChunks(kept)
    /\ pc' = "export"
    /\ UNCHANGED <<caller, input_file, file_ms, target_duration,
                   crossfade_duration, locals, audio, current_audio,
                   chunk_number, copies, chunks, best_chunks, final_audio,
                   chunk, idx, num_loops, i, output, appends, result,
                   video_result, report_printed>>

\* lines 91-97: export of the final audio, return True
ExportFinal ==
    /\ pc = "export"
    /\ \E ok \in BOOLEAN :
          IF ok
          THEN /\ output' = <<final_audio>>
               /\ final_audio' = <<>>
               /\ result' = "True"
               /\ pc' = "exit"
          ELSE /\ pc' = "except"
               /\ UNCHANGED <<output, final_audio, result>>
    /\ UNCHANGED <<caller, input_file, file_ms, target_duration,
                   crossfade_duration, locals, audio, current_audio,
                   chunk_number, copies, chunks, best_chunks, chunk, idx,
                   num_loops, i, temp_files, appends, video_result,
                   report_printed>>

\* lines 99-107: the handler reads `chunks`, which is unbound when the
\* failure came before line 43
Except ==
    /\ pc = "except"
    /\ IF "chunks" \in locals
       THEN /\ \E kept \in SUBSET (ChunkSet \cap DOMAIN temp_files) :
                  temp_files' = RemoveChunks(kept)
            /\ result' = "False"
       ELSE /\ result' = "UnboundLocalError"
            /\ UNCHANGED temp_files
    /\ pc' = "exit"
    /\ UNCHANGED <<caller, input_file, file_ms, target_duration,
                   crossfade_duration, locals, audio, current_audio,
                   chunk_number, copies, chunks, best_chunks, final_audio,
                   chunk, idx, num_loops, i, output, appends, video_result,
                   report_printed>>

----------------------------------------------------------------------------
\* main.py, the script

\* line 172 and lines 109-166: create_video_with_thumbnail, reached when
\* loop_song returned; the return value of loop_song is not read
CreateVideo ==
    /\ pc = "exit"
    /\ caller = "script"
    /\ result \in {"True", "False"}
    /\ \E audio_exists \in (IF output # <<>> THEN {TRUE} ELSE BOOLEAN),
          thumbnail_exists \in BOOLEAN, ffmpeg_ok \in BOOLEAN :
          video_result' = IF audio_exists /\ thumbnail_exists /\ ffmpeg_ok
                          THEN "True" ELSE "False"
    /\ pc' = "video_done"
    /\ UNCHANGED <<caller, input_file, file_ms, target_duration,
                   crossfade_duration, locals, audio, current_audio,
                   chunk_number, copies, chunks, best_chunks, final_audio,
                   chunk, idx, num_loops, i, temp_files, output, appends,
                   result, report_printed>>

\* line 174
Report ==
    /\ pc = "video_done"
    /\ report_printed' = TRUE
    /\ pc' = "end"
    /\ UNCHANGED <<caller, input_file, file_ms, target_duration,
                   crossfade_duration, locals, audio, current_audio,
                   chunk_number, copies, chunks, best_chunks, final_audio,
                   chunk, idx, num_loops, i, temp_files, output, appends,
                   result, video_result>>

\* the state before the first statement of a call
Fresh ==
    /\ locals = {}
    /\ audio = <<>>
    /\ current_audio = <<>>
    /\ chunk_number = 0
    /\ copies = 0
    /\ chunks = <<>>
    /\ best_chunks = <<>>
    /\ final_audio = <<>>
    /\ chunk = <<>>
    /\ idx = 0
    /\ num_loops = 0
    /\ i = 0
    /\ temp_files = <<>>
    /\ output = <<>>
    /\ appends = 0
    /\ result = "running"
    /\ video_result = "none"
    /\ report_printed = FALSE

InputFiles ==
    /\ input_file \in {"missing", "empty", "corrupt", "audio"}
    /\ file_ms \in IF input_file = "audio" THEN SourceDurations ELSE {0}

\* lines 168-171 (the script calls loop_song with its defaults) or a direct
\* call of loop_song with arguments
Init ==
    /\ pc = "check"
    /\ caller \in {"script", "call"}
    /\ InputFiles
    /\ IF caller = "script"
       THEN target_duration = TARGET_DURATION /\ crossfade_duration = DefaultCrossfade
       ELSE target_duration \in 0..MaxTarget /\ crossfade_duration \in 0..MaxCrossfade
    /\ Fresh

Next ==
    \/ CheckInput
    \/ LoadAudio
    \/ WhileTest
    \/ AppendCopy
    \/ ExportChunk
    \/ SelectChunks
    \/ StitchFirst
    \/ Except
    \/ CreateVideo
    \/ Report

Spec == Init /\ [][Next]_vars

----------------------------------------------------------------------------
\* main.py, loop_song from line 62 on, given n chunks built by lines 47-60

\* k more passes of line 53 on buf
RECURSIVE AppendCopies(_, _, _, _)
AppendCopies(buf, unit, c, k) ==
    IF k = 0 THEN buf ELSE AppendCopies(append(buf, unit, c), unit, c, k - 1)

\* the content of a chunk file: lines 52-55
BuiltChunk(unit, c) == AppendCopies(unit, unit, c, ExtraCopies)

InitStitch ==
    /\ pc = "select"
    /\ caller = "call"
    /\ input_file = "audio"
    /\ file_ms \in SourceDurations
    /\ target_duration \in 1..MaxStitchTarget
    /\ crossfade_duration \in 0..MaxCrossfade
    /\ target_duration * MsPerSecond > file_ms
    /\ ~AppendRaises(Source(file_ms), Source(file_ms),
                     crossfade_duration * MsPerSecond)
    /\ locals = {"audio", "chunks", "current_audio"}
    /\ audio = Source(file_ms)
    /\ current_audio = Source(file_ms)
    /\ \E n \in 1..MaxBuilt :
          /\ chunks = [k \in 1..n |-> k]
          /\ chunk_number = n + 1
          /\ temp_files = [k \in 1..n |->
                BuiltChunk(Source(file_ms), crossfade_duration * MsPerSecond)]
          /\ appends = ExtraCopies * n
    /\ copies = ExtraCopies
    /\ best_chunks = <<>>
    /\ final_audio = <<>>
    /\ chunk = <<>>
    /\ idx = 0
    /\ num_loops = 0
    /\ i = 0
    /\ output = <<>>
    /\ result = "running"
    /\ video_result = "none"
    /\ report_printed = FALSE

NextStitch ==
    \/ SelectChunks
    \/ StitchFirst
    \/ StitchLoad
    \/ StitchAppend
    \/ Cleanup
    \/ ExportFinal
    \/ Except

SpecStitch == InitStitch /\ [][NextStitch]_vars

\* main.loop_song with every statement of lines 23-107, from a call
NextFull == Next \/ StitchLoad \/ StitchAppend \/ Cleanup \/ ExportFinal

SpecFull == Init /\ [][NextFull]_vars

\* From the head of loop_song the while loop is left only without a chunk,
\* so line 77 raises and lines 78-97 are never reached: Next leaves out the
\* actions of those lines.
StitchingNeverReached == pc \notin {"stitch", "stitch_append", "export"}

----------------------------------------------------------------------------
\* converter.py, loop_song

\* lines 42-45: validation, outside the try block
ValidateInput ==
    /\ pc = "c_validate"
    /\ IF input_file = "missing"
       THEN result' = "FileNotFoundError" /\ pc' = "c_exit"
       ELSE IF input_file = "empty"
       THEN result' = "ValueError" /\ pc' = "c_exit"
       ELSE result' = result /\ pc' = "c_load"
    /\ UNCHANGED <<caller, input_file, file_ms, target_duration,
                   crossfade_duration, locals, audio, current_audio,
                   chunk_number, copies, chunks, best_chunks, final_audio,
                   chunk, idx, num_loops, i, temp_files, output, appends,
                   video_result, report_printed>>

\* lines 50-58: decode; every exception of the try block is re-raised as
\* RuntimeError (lines 91-92)
ConvLoad ==
    /\ pc = "c_load"
    /\ IF input_file = "audio"
       THEN /\ audio' = Source(file_ms)
            /\ locals' = locals \cup {"audio"}
            /\ pc' = "c_plan"
            /\ UNCHANGED result
       ELSE /\ result' = "RuntimeError"
            /\ pc' = "c_exit"
            /\ UNCHANGED <<audio, locals>>
    /\ UNCHANGED <<caller, input_file, file_ms, target_duration,
                   crossfade_duration, current_audio, chunk_number, copies,
                   chunks, best_chunks, final_audio, chunk, idx, num_loops,
                   i, temp_files, output, appends, video_result,
                   report_printed>>

\* lines 62-68: the number of loops; the division raises ZeroDivisionError
\* when the crossfade equals the source duration
ConvPlan ==
    /\ pc = "c_plan"
    /\ IF effective_duration = 0
       THEN /\ result' = "RuntimeError"
            /\ pc' = "c_exit"
            /\ UNCHANGED <<num_loops, final_audio, i, locals>>
       ELSE /\ num_loops' = NumLoops(target_ms, effective_duration)
            /\ final_audio' = audio
            /\ i' = 0
            /\ locals' = locals \cup {"num_loops", "final_audio"}
            /\ pc' = "c_loop"
            /\ UNCHANGED result
    /\ UNCHANGED <<caller, input_file, file_ms, target_duration,
                   crossfade_duration, audio, current_audio, chunk_number,
                   copies, chunks, best_chunks, chunk, idx, temp_files,
                   output, appends, video_result, report_printed>>

\* lines 69-72: one pass of `for i in range(num_loops - 1)`
ConvAppend ==
    /\ pc = "c_loop"
    /\ i < num_loops - 1
    /\ appends' = appends + 1
    /\ IF AppendRaises(final_audio, audio, crossfade_ms)
       THEN /\ result' = "RuntimeError"
            /\ pc' = "c_exit"
            /\ UNCHANGED <<final_audio, i>>
       ELSE /\ final_audio' = append(final_audio, audio, crossfade_ms)
            /\ i' = i + 1
            /\ pc' = "c_loop"
            /\ UNCHANGED result
    /\ UNCHANGED <<caller, input_file, file_ms, target_duration,
                   crossfade_duration, locals, audio, current_audio,
                   chunk_number, copies, chunks, best_chunks, chunk, idx,
                   num_loops, temp_files, output, video_result,
                   report_printed>>

\* the loop is over: the accumulator is complete
ConvLoopDone ==
    /\ pc = "c_loop"
    /\ i >= num_loops - 1
    /\ pc' = "c_trim"
    /\ UNCHANGED <<caller, input_file, file_ms, target_duration,
                   crossfade_duration, locals, audio, current_audio,
                   chunk_number, copies, chunks, best_chunks, final_audio,
                   chunk, idx, num_loops, i, temp_files, output, appends,
                   result, video_result, report_printed>>

\* lines 75-76: trim to the target
ConvTrim ==
    /\ pc = "c_trim"
    /\ final_audio' = IF Duration(final_audio) > target_ms
                      THEN Take(final_audio, target_ms)
                      ELSE final_audio
    /\ pc' = "c_export"
    /\ UNCHANGED <<caller, input_file, file_ms, target_duration,
                   crossfade_duration, locals, audio, current_audio,
                   chunk_number, copies, chunks, best_chunks, chunk, idx,
                   num_loops, i, temp_files, output, appends, result,
                   video_result, report_printed>>

\* lines 79-89: export; a failure is re-raised as RuntimeError
ConvExport ==
    /\ pc = "c_export"
    /\ \E ok \in BOOLEAN :
          IF ok
          THEN output' = <<final_audio>> /\ result' = "None"
          ELSE output' = output /\ result' = "RuntimeError"
    /\ pc' = "c_exit"
    /\ UNCHANGED <<caller, input_file, file_ms, target_duration,
                   crossfade_duration, locals, audio, current_audio,
                   chunk_number, copies, chunks, best_chunks, final_audio,
                   chunk, idx, num_loops, i, temp_files, appends,
                   video_result, report_printed>>

InitConv ==
    /\ pc = "c_validate"
    /\ caller = "call"
    /\ InputFiles
    /\ target_duration \in 0..MaxTarget
    /\ crossfade_duration \in 0..MaxCrossfade
    /\ Fresh

NextConv ==
    \/ ValidateInput
    \/ ConvLoad
    \/ ConvPlan
    \/ ConvAppend
    \/ ConvLoopDone
    \/ ConvTrim
    \/ ConvExport

SpecConv == InitConv /\ [][NextConv]_vars

----------------------------------------------------------------------------
\* Properties

Loaded == "audio" \in locals

\* 0 <= c < d0
ValidLoop == Loaded /\ crossfade_ms >= 0 /\ crossfade_ms < original_duration

\* c >= d0
Degenerate == Loaded /\ crossfade_ms >= original_duration

\* 0 <= c < d0 and 0 <= T <= d0
ShortTarget == ValidLoop /\ target_ms >= 0 /\ target_ms <= original_duration

Exited == pc \in {"exit", "video_done", "end"}

\* the first k registered chunks joined with the crossfade at each boundary
RECURSIVE Stitched(_)
Stitched(k) ==
    IF k = 1 THEN temp_files[chunks[1]]
    ELSE append(Stitched(k - 1), temp_files[chunks[k]], crossfade_ms)

\* the prefixes of the chunk list whose stitched duration is within the target
Fitting == {k \in 1..Len(chunks) : Duration(Stitched(k)) <= target_ms}

LargestFitting == CHOOSE k \in Fitting : \A j \in Fitting : j <= k

\* C1: in converter.loop_song, for 0 <= c < d0 and T >= d0, the buffer left
\* by the append loop and the trim, and the buffer exported, has duration
\* exactly T.
C1_DurationContract ==
    (ValidLoop /\ target_ms >= original_duration) =>
        /\ pc = "c_export" => Duration(final_audio) = target_ms
        /\ output # <<>> => Duration(output[1]) = target_ms

C1_Witness ==
    /\ pc = "c_exit"
    /\ ValidLoop
    /\ target_ms >= original_duration
    /\ crossfade_ms > 0
    /\ appends >= 2
    /\ output # <<>>
    /\ Duration(output[1]) = target_ms

\* C2: in main.loop_song, for 0 <= c < d0 and T > d0, once the registered
\* chunks reach or exceed the target when stitched, the while loop stops:
\* no further chunk is being built.
C2_ChunkBuildingStops ==
    (ValidLoop /\ target_ms > original_duration /\ Len(chunks) >= 1
        /\ Duration(Stitched(Len(chunks))) >= target_ms)
    => pc # "build"

\* C3: with c >= d0, loop_song makes no append call, exports no output and,
\* once it has ended, has ended in a failure.
C3_DegenerateRejected ==
    Degenerate =>
        /\ appends = 0
        /\ output = <<>>
        /\ pc \in {"c_exit", "exit"} => result \notin {"None", "True"}

\* C4: with 0 <= c < d0 and 0 <= T <= d0, loop_song makes no append call,
\* the buffer it exports is the prefix of the source of length T, and the
\* call does not fail in its own selection step.
C4_NoOpShortTarget ==
    ShortTarget =>
        /\ appends = 0
        /\ pc = "c_export" => final_audio = Take(audio, target_ms)
        /\ output # <<>> => output[1] = Take(audio, target_ms)
        /\ pc # "except"

\* C5: once main.loop_song has returned or exited, no temp_chunk_N file
\* created by the call exists.
C5_TempChunksRemoved == Exited => DOMAIN temp_files = {}

C7_ReportOnlyOnSuccess ==
    report_printed => (result = "True" /\ video_result = "True")

C9_WasteBound ==
    (pc = "c_trim" /\ ValidLoop) =>
        /\ target_ms <= Duration(final_audio)
        /\ Duration(final_audio) <= target_ms + original_duration

C9_Witness ==
    /\ pc = "c_trim"
    /\ ValidLoop
    /\ crossfade_ms > 0
    /\ appends >= 1
    /\ Duration(final_audio) > target_ms
    /\ Duration(final_audio) < target_ms + original_duration

\* C10: a call of main.loop_song that has ended without success has
\* returned False; no exception has left the call.
C10_FailureIsFalse ==
    (Exited /\ result # "True") => result = "False"

====
